---- MODULE Spec2Model ----
(***************************************************************************)
(* Model of the calendar tools of zero-calendar (src/unnamed/part_000,     *)
(* the object calendarTools): findFreeTimeSlots and getCalendarAnalytics   *)
(* over the events an event repository returns.                            *)
(*                                                                         *)
(* Time is a number of milliseconds since local midnight of day 0, as the  *)
(* value of Date.getTime() is; a day has 24 hours (no DST change falls in  *)
(* the modelled days).  The label of a free slot is display text that no   *)
(* property reads and is left out of the slot records.                     *)
(***************************************************************************)
EXTENDS Integers, Sequences, FiniteSets, TLC

VARIABLES repo, req, events, result

vars == <<repo, req, events, result>>

----------------------------------------------------------------------------
(* Bounds of the model *)

\* most events the repository holds under SpecFree
MaxEvents == 2

----------------------------------------------------------------------------
(* Program constants *)

\* dayStart.setHours(9, 0, 0, 0)
WorkStartHour == 9
\* dayEnd.setHours(17, 0, 0, 0)
WorkEndHour == 17
\* (1000 * 60)
MsPerMinute == 1000 * 60
\* (1000 * 60 * 60 * 24)
MsPerDay == 1000 * 60 * 60 * 24

----------------------------------------------------------------------------
(* Clock arithmetic *)

\* the instant h:m:s of day d
At(d, h, m, s) == d * MsPerDay + ((h * 60 + m) * 60 + s) * 1000

Min2(a, b) == IF a <= b THEN a ELSE b
Max2(a, b) == IF a >= b THEN a ELSE b

\* date-fns startOfDay: local midnight of the day of t
startOfDay(t) == t - (t % MsPerDay)
\* date-fns endOfDay: 23:59:59.999 of the day of t
endOfDay(t) == startOfDay(t) + MsPerDay - 1
\* date-fns addDays
addDays(t, n) == t + n * MsPerDay
\* new Date(currentDay).setHours(h, 0, 0, 0)
setHours(day, h) == startOfDay(day) + h * 60 * MsPerMinute
\* Math.floor(x / y) for y > 0
Floor(x, y) == x \div y

----------------------------------------------------------------------------
(* date-fns areIntervalsOverlapping.  date-fns 2 throws a RangeError when  *)
(* an interval has start > end; date-fns 3 orders the two ends first.  The *)
(* version the program is built with is not part of the sources, so the    *)
(* model takes either (DateFns).                                           *)

DateFns == {"throws", "sorts"}

ValidInterval(i) == i.start <= i.end

SortInterval(i) == [start |-> Min2(i.start, i.end), end |-> Max2(i.start, i.end)]

\* leftStart < rightEnd && rightStart < leftEnd
areIntervalsOverlapping(l, r) == l.start < r.end /\ r.start < l.end

----------------------------------------------------------------------------
(* findFreeTimeSlots *)

\* [...events].sort((a, b) => start(a) - start(b)): a stable sort
RECURSIVE InsertSorted(_, _)
InsertSorted(s, e) ==
  IF s = <<>> THEN <<e>>
  ELSE IF e.start < Head(s).start THEN <<e>> \o s
  ELSE <<Head(s)>> \o InsertSorted(Tail(s), e)

\* the events left in fetch order
SortByStartMutant(evs) == evs

RECURSIVE SortByStart(_)
SortByStart(evs) ==
  IF evs = <<>> THEN <<>>
  ELSE InsertSorted(SortByStart(SubSeq(evs, 1, Len(evs) - 1)), evs[Len(evs)])

\* the day's window clipped to the range
EffectiveDayStart(day, start) ==
  IF setHours(day, WorkStartHour) < start THEN start ELSE setHours(day, WorkStartHour)
\* the window's end not clipped to the range
EffectiveDayEndMutant(day, end) == setHours(day, WorkEndHour)
EffectiveDayEnd(day, end) ==
  IF setHours(day, WorkEndHour) > end THEN end ELSE setHours(day, WorkEndHour)

\* a day whose window only touches the range is skipped too
SkipDayMutant(day, start, end) ==
  setHours(day, WorkEndHour) <= start \/ setHours(day, WorkStartHour) >= end
\* if (dayEnd < start || dayStart > end) continue
SkipDay(day, start, end) ==
  setHours(day, WorkEndHour) < start \/ setHours(day, WorkStartHour) > end

\* sortedEvents.filter(areIntervalsOverlapping(window, event))
DayEvents(sortedEvents, effStart, effEnd) ==
  SelectSeq(sortedEvents,
            LAMBDA e : areIntervalsOverlapping(
                         SortInterval([start |-> effStart, end |-> effEnd]),
                         [start |-> e.start, end |-> e.end]))

AugmentedEvents(sortedEvents, effStart, effEnd) ==
  <<[start |-> effStart, end |-> effStart]>>
    \o DayEvents(sortedEvents, effStart, effEnd)
    \o <<[start |-> effEnd, end |-> effEnd]>>

\* the gap rounded up to whole minutes before the comparison
GapIsSlotMutant(currentEventEnd, nextEventStart, minDurationMinutes) ==
  (nextEventStart - currentEventEnd) + (MsPerMinute - 1) >= minDurationMinutes * 60 * 1000
\* nextEventStart - currentEventEnd >= minDurationMinutes * 60 * 1000
GapIsSlot(currentEventEnd, nextEventStart, minDurationMinutes) ==
  nextEventStart - currentEventEnd >= minDurationMinutes * 60 * 1000

\* the slot pushed for a gap
Slot(currentEventEnd, nextEventStart) ==
  [start |-> currentEventEnd, end |-> nextEventStart,
   duration |-> Floor(nextEventStart - currentEventEnd, MsPerMinute)]

\* for (let i = 0; i < augmentedEvents.length - 1; i++) ...
RECURSIVE GapLoop(_, _, _)
GapLoop(aug, i, minDurationMinutes) ==
  IF i > Len(aug) - 1 THEN <<>>
  ELSE (IF GapIsSlot(aug[i].end, aug[i + 1].start, minDurationMinutes)
          THEN <<Slot(aug[i].end, aug[i + 1].start)>>
          ELSE <<>>)
       \o GapLoop(aug, i + 1, minDurationMinutes)

\* the slots one iteration of the while loop pushes
DaySlots(sortedEvents, day, start, end, minDurationMinutes) ==
  IF SkipDay(day, start, end) THEN <<>>
  ELSE GapLoop(AugmentedEvents(sortedEvents,
                               EffectiveDayStart(day, start),
                               EffectiveDayEnd(day, end)),
               1, minDurationMinutes)

\* while (currentDay <= lastDay) { ...; currentDay = addDays(currentDay, 1) }
RECURSIVE DayLoop(_, _, _, _, _)
DayLoop(sortedEvents, currentDay, start, end, minDurationMinutes) ==
  IF currentDay > endOfDay(end) THEN <<>>
  ELSE DaySlots(sortedEvents, currentDay, start, end, minDurationMinutes)
       \o DayLoop(sortedEvents, addDays(currentDay, 1), start, end, minDurationMinutes)

\* the days the while loop visits
LoopDays(start, end) ==
  {d \in 0 .. Floor(endOfDay(end), MsPerDay) :
     /\ d * MsPerDay >= startOfDay(start)
     /\ d * MsPerDay <= endOfDay(end)}

\* the filter callback is handed an interval with start > end
FilterThrows(evs, start, end) ==
  /\ evs # <<>>
  /\ \E d \in LoopDays(start, end) :
       /\ ~SkipDay(d * MsPerDay, start, end)
       /\ ~ValidInterval([start |-> EffectiveDayStart(d * MsPerDay, start),
                          end |-> EffectiveDayEnd(d * MsPerDay, end)])

RECURSIVE SumDuration(_)
SumDuration(slots) ==
  IF slots = <<>> THEN 0 ELSE Head(slots).duration + SumDuration(Tail(slots))

FreeTimeSlotsResult(evs, start, end, minDurationMinutes, lib) ==
  IF lib = "throws" /\ FilterThrows(evs, start, end)
    THEN [op |-> "findFreeTimeSlots", status |-> "rejected", error |-> "RangeError"]
    ELSE LET freeSlots == DayLoop(SortByStart(evs), startOfDay(start), start, end,
                                  minDurationMinutes)
         IN [op |-> "findFreeTimeSlots", status |-> "ok",
             freeSlots |-> freeSlots,
             totalFreeSlots |-> Len(freeSlots),
             totalFreeDurationMinutes |-> SumDuration(freeSlots)]

----------------------------------------------------------------------------
(* The event repository (./calendar: getEvents, createEvent) *)

\* the events of the repository that meet the range, in stored order
getEvents(stored, start, end) ==
  SelectSeq(stored, LAMBDA e : e.start <= end /\ e.end >= start)

NoResult == [op |-> "none"]
NoRequest == [op |-> "none"]

\* the intervals of the events created under SpecFree
FreeIntervals ==
  { <<At(0, 9, 0, 0), At(0, 17, 0, 0)>>,      \* the whole window of day 0
    <<At(0, 8, 0, 0), At(0, 18, 0, 0)>>,      \* beyond the window on both sides
    <<At(0, 9, 0, 0), At(0, 12, 0, 0)>>,
    <<At(0, 10, 0, 0), At(0, 11, 0, 0)>>,     \* nested in the one before
    <<At(0, 10, 0, 30), At(0, 16, 30, 30)>>,  \* ends not on whole minutes
    <<At(0, 8, 0, 0), At(0, 10, 0, 0)>>,      \* begins before the window
    <<At(0, 16, 0, 0), At(0, 18, 0, 0)>>,     \* ends after the window
    <<At(0, 12, 0, 0), At(0, 12, 0, 0)>>,     \* zero length
    <<At(0, 16, 0, 0), At(1, 10, 0, 0)>>,     \* spans two days
    <<At(1, 9, 0, 0), At(1, 17, 0, 0)>>,
    <<At(1, 13, 0, 0), At(1, 14, 0, 0)>> }

FreeEvents ==
  { [start |-> iv[1], end |-> iv[2], allDay |-> FALSE, categories |-> <<>>] :
      iv \in FreeIntervals }

\* the ends of the ranges asked for under SpecFree
FreeRangePoints ==
  { At(0, 0, 0, 0), At(0, 10, 0, 30), At(0, 17, 0, 0), At(1, 8, 0, 0), At(1, 12, 0, 0) }

\* the minimum durations asked for under SpecFree; 30 is the default
FreeMinDurations == {0, 30, 61}

TypeOK ==
  /\ \A i \in 1 .. Len(repo) : repo[i].start <= repo[i].end

Init ==
  /\ repo = <<>>
  /\ req = NoRequest
  /\ events = <<>>
  /\ result = NoResult

\* createEvent: the repository stores one more event; ids are given in order
CreateEvent(universe, max) ==
  /\ result = NoResult
  /\ Len(repo) < max
  /\ \E e \in universe :
       repo' = Append(repo, [id |-> Len(repo) + 1] @@ e)
  /\ UNCHANGED <<req, events, result>>

\* findFreeTimeSlots(userId, startDate, endDate, minDurationMinutes)
FindFreeTimeSlots ==
  /\ req = NoRequest /\ result = NoResult
  /\ \E start \in FreeRangePoints, end \in FreeRangePoints,
        minDurationMinutes \in FreeMinDurations, lib \in DateFns :
       /\ req' = [op |-> "findFreeTimeSlots", start |-> start, end |-> end,
                  minDurationMinutes |-> minDurationMinutes]
       /\ events' = getEvents(repo, start, end)
       /\ result' = FreeTimeSlotsResult(getEvents(repo, start, end), start, end,
                                        minDurationMinutes, lib)
  /\ UNCHANGED repo

\* the response has been handed to the caller; nothing of the call is kept
Respond ==
  /\ result # NoResult
  /\ req' = NoRequest
  /\ events' = <<>>
  /\ result' = NoResult
  /\ UNCHANGED repo

NextFree ==
  \/ CreateEvent(FreeEvents, MaxEvents)
  \/ FindFreeTimeSlots
  \/ Respond

SpecFree == Init /\ [][NextFree]_vars

----------------------------------------------------------------------------
(* JavaScript numbers.  The minutes getCalendarAnalytics computes are      *)
(* IEEE 754 doubles: each division and each addition rounds its exact      *)
(* result to the nearest number with a 53-bit significand, ties to even.   *)
(* A double >= 0 is a record [hi, lo, e] that stands for                   *)
(* (hi * 2^27 + lo) * 2^e, with 2^52 <= hi * 2^27 + lo < 2^53, or for 0    *)
(* when hi = lo = 0.  The values of the model stay far from the ends of    *)
(* the exponent range, so there are no subnormal numbers and no overflow.  *)

\* the base of the two limbs of a significand
Limb == 2 ^ 27

Zero == [hi |-> 0, lo |-> 0, e |-> 0]

IsZero(x) == x.hi = 0 /\ x.lo = 0

\* the number of bits of a natural number
RECURSIVE BitLen(_)
BitLen(n) == IF n = 0 THEN 0 ELSE 1 + BitLen(n \div 2)

\* a 56-bit number hi * 2^27 + lo (53 bits, then guard, round and sticky
\* bits) in units of 2^(e - 3), rounded to nearest, ties to even
Round56(hi, lo, e) ==
  LET g == lo % 8
      mlo == (lo \div 8) + (hi % 8) * (2 ^ 24)
      mhi == hi \div 8
      up == g > 4 \/ (g = 4 /\ mlo % 2 = 1)
      lo1 == IF up THEN (mlo + 1) % Limb ELSE mlo
      hi1 == IF up /\ mlo + 1 = Limb THEN mhi + 1 ELSE mhi
  IN IF hi1 = 2 ^ 26 THEN [hi |-> 2 ^ 25, lo |-> 0, e |-> e + 1]
     ELSE [hi |-> hi1, lo |-> lo1, e |-> e]

\* hi * 2^27 + lo shifted right by d bits; the lowest bit of the outcome is
\* set when a bit that is 1 was shifted out (the sticky bit)
ShiftRightSticky(hi, lo, d) ==
  IF d = 0 THEN <<hi, lo>>
  ELSE IF d >= 57 THEN <<0, 1>>
  ELSE IF d < 27
    THEN LET out == lo % (2 ^ d)
             l == (lo \div (2 ^ d)) + (hi % (2 ^ d)) * (2 ^ (27 - d))
         IN <<hi \div (2 ^ d), IF out # 0 /\ l % 2 = 0 THEN l + 1 ELSE l>>
    ELSE LET k == d - 27
             out == IF lo # 0 THEN 1 ELSE hi % (2 ^ k)
             v == hi \div (2 ^ k)
             l == v % Limb
         IN <<v \div Limb, IF out # 0 /\ l % 2 = 0 THEN l + 1 ELSE l>>

\* x + y for doubles x, y >= 0 with x.e >= y.e
AddOrdered(x, y) ==
  LET xhi == x.hi * 8 + (x.lo \div (2 ^ 24))
      xlo == (x.lo % (2 ^ 24)) * 8
      ys == ShiftRightSticky(y.hi * 8 + (y.lo \div (2 ^ 24)),
                             (y.lo % (2 ^ 24)) * 8, x.e - y.e)
      lo == (xlo + ys[2]) % Limb
      hi == xhi + ys[1] + ((xlo + ys[2]) \div Limb)
  IN IF hi >= 2 ^ 29
       THEN LET l == (lo \div 2) + (hi % 2) * (2 ^ 26)
            IN Round56(hi \div 2, IF lo % 2 = 1 /\ l % 2 = 0 THEN l + 1 ELSE l,
                       x.e + 1)
       ELSE Round56(hi, lo, x.e)

\* x + y
FAdd(x, y) ==
  IF IsZero(x) THEN y
  ELSE IF IsZero(y) THEN x
  ELSE IF x.e >= y.e THEN AddOrdered(x, y)
  ELSE AddOrdered(y, x)

\* x < y for doubles >= 0
FLess(x, y) ==
  IF IsZero(y) THEN FALSE
  ELSE IF IsZero(x) THEN TRUE
  ELSE IF x.e # y.e THEN x.e < y.e
  ELSE IF x.hi # y.hi THEN x.hi < y.hi
  ELSE x.lo < y.lo

\* the bits brought down in one step of the long division
ChunkBits == 14

\* long division by c < 2^16, ChunkBits bits at a step: q (two limbs, qbits
\* bits so far) is the quotient, r the remainder; the numbits low bits of
\* num are the bits of the dividend still to bring down, f counts the bits
\* brought down past the dividend's last one.  Ends with 56 quotient bits,
\* the lowest of them set when the division left a remainder (sticky).
RECURSIVE DivLoop(_, _, _, _, _, _, _, _)
DivLoop(qhi, qlo, qbits, r, c, num, numbits, f) ==
  IF qbits = 56
    THEN [hi |-> qhi, lo |-> IF r # 0 /\ qlo % 2 = 0 THEN qlo + 1 ELSE qlo, f |-> f]
    ELSE LET k == IF numbits > 0
                    THEN Min2(Min2(ChunkBits, 56 - qbits), numbits)
                    ELSE Min2(ChunkBits, 56 - qbits)
             down == IF numbits > 0 THEN (num \div (2 ^ (numbits - k))) % (2 ^ k) ELSE 0
             v == r * (2 ^ k) + down
             qc == v \div c
         IN DivLoop(qhi * (2 ^ k) + (qlo \div (2 ^ (27 - k))),
                    (qlo % (2 ^ (27 - k))) * (2 ^ k) + qc,
                    IF qbits = 0 THEN BitLen(qc) ELSE qbits + k,
                    v % c, c,
                    num, IF numbits > 0 THEN numbits - k ELSE 0,
                    IF numbits > 0 THEN f ELSE f + k)

\* n / c for integers n >= 0 and c > 0
ToDouble(n, c) ==
  IF n = 0 THEN Zero
  ELSE LET q == DivLoop((n \div c) \div Limb, (n \div c) % Limb, BitLen(n \div c),
                        n % c, c, 0, 0, 0)
       IN Round56(q.hi, q.lo, 3 - q.f)

\* x / c for a double x >= 0 and an integer c > 0
FDivInt(x, c) ==
  IF IsZero(x) THEN Zero
  ELSE LET q == DivLoop(0, x.hi \div c, BitLen(x.hi \div c), x.hi % c, c, x.lo, 27, 0)
       IN Round56(q.hi, q.lo, x.e + 3 - q.f)

\* x * 10 = 8x + 2x: both terms are exact, the sum rounds once
FMul10(x) ==
  IF IsZero(x) THEN Zero
  ELSE AddOrdered([x EXCEPT !.e = @ + 3], [x EXCEPT !.e = @ + 1])

\* the integer part of a double >= 0 that is less than 2^31 (so e <= -22)
FFloor(x) ==
  IF IsZero(x) \/ x.e <= -53 THEN 0
  ELSE IF -x.e < 27
    THEN (x.hi \div (2 ^ (-x.e))) * Limb
         + (x.lo \div (2 ^ (-x.e))) + (x.hi % (2 ^ (-x.e))) * (2 ^ (27 + x.e))
    ELSE x.hi \div (2 ^ (-x.e - 27))

\* bit i of the significand, bit 0 the lowest
SigBit(x, i) ==
  IF i < 0 \/ i > 52 THEN 0
  ELSE IF i < 27 THEN (x.lo \div (2 ^ i)) % 2
  ELSE (x.hi \div (2 ^ (i - 27))) % 2

\* some bit of the significand below bit i is 1
SigBelow(x, i) ==
  IF i <= 0 THEN FALSE
  ELSE IF i <= 27 THEN x.lo % (2 ^ i) # 0
  ELSE x.lo # 0 \/ x.hi % (2 ^ Min2(i - 27, 26)) # 0

\* Math.round(x) for a double x >= 0: halves go up
FRound(x) ==
  IF IsZero(x) THEN 0 ELSE FFloor(x) + SigBit(x, -x.e - 1)

\* -Math.round(-x) for a double x >= 0: halves of a negative number go up,
\* towards zero
FRoundNegated(x) ==
  IF IsZero(x) THEN 0
  ELSE FFloor(x)
       + (IF SigBit(x, -x.e - 1) = 1 /\ SigBelow(x, -x.e - 1) THEN 1 ELSE 0)

----------------------------------------------------------------------------
(* getCalendarAnalytics                                                    *)
(*                                                                         *)
(* totalMeetingMinutes, busiestDayMinutes and the values of                *)
(* dailyMeetingMinutes are doubles.  A field the code rounds with          *)
(* Math.round holds the integer; a field in hours, rounded to one decimal  *)
(* as Math.round(x * 10) / 10, holds that integer, the tenths of an hour.  *)

\* busiestDay = "": no day
NoDay == -1

\* an average, which may be the outcome of a division by zero
Num(v) == [kind |-> "number", val |-> v]
NaN == [kind |-> "NaN", val |-> 0]
Infinity == [kind |-> "Infinity", val |-> 0]

\* Math.ceil(a / b) for integers a and b > 0; the quotient of two such
\* integers below 2^31 is never rounded to a whole number it is not
Ceil(a, b) == -((-a) \div b)

\* format(eventStart, "yyyy-MM-dd"): the local calendar day of an instant
DateKey(t) == Floor(t, MsPerDay)

\* (eventEnd.getTime() - eventStart.getTime()) / (1000 * 60)
DurationMinutes(event) == ToDouble(event.end - event.start, MsPerMinute)

\* categoryCounts[key] = (categoryCounts[key] || 0) + 1
Increment(counts, key) ==
  IF key \in DOMAIN counts
    THEN [counts EXCEPT ![key] = @ + 1]
    ELSE counts @@ (key :> 1)

\* event.categories.forEach(category => count it), in the order of the list
RECURSIVE IncrementEach(_, _)
IncrementEach(counts, categories) ==
  IF categories = <<>> THEN counts
  ELSE IncrementEach(Increment(counts, Head(categories)), Tail(categories))

\* event.categories && event.categories.length > 0: an event may have no
\* categories field at all (categories?: string[])
HasCategories(event) ==
  "categories" \in DOMAIN event /\ Len(event.categories) > 0

\* only the first of the event's categories is counted
CountCategoriesMutant(counts, event) ==
  IF HasCategories(event)
    THEN Increment(counts, Head(event.categories))
    ELSE Increment(counts, "Uncategorized")
\* if (event.categories && event.categories.length > 0) ... else ...
CountCategories(counts, event) ==
  IF HasCategories(event)
    THEN IncrementEach(counts, event.categories)
    ELSE Increment(counts, "Uncategorized")

\* the index of the entry of a date key in the per-day list, 0 when absent
DailyIndex(daily, dateKey) ==
  IF \E i \in 1 .. Len(daily) : daily[i].date = dateKey
    THEN CHOOSE i \in 1 .. Len(daily) : daily[i].date = dateKey
    ELSE 0

\* the bucket is overwritten, not added to
AddDailyMutant(daily, dateKey, durationMinutes) ==
  IF DailyIndex(daily, dateKey) = 0
    THEN Append(daily, [date |-> dateKey, minutes |-> durationMinutes])
    ELSE [daily EXCEPT ![DailyIndex(daily, dateKey)].minutes = durationMinutes]
\* dailyMeetingMinutes[dateKey] = (dailyMeetingMinutes[dateKey] || 0) + durationMinutes;
\* the entries of the object are kept in the order their keys were inserted
AddDaily(daily, dateKey, durationMinutes) ==
  IF DailyIndex(daily, dateKey) = 0
    THEN Append(daily, [date |-> dateKey, minutes |-> FAdd(Zero, durationMinutes)])
    ELSE [daily EXCEPT ![DailyIndex(daily, dateKey)].minutes = FAdd(@, durationMinutes)]

\* all-day events are counted like the others
IsSkippedMutant(event) == FALSE
\* if (event.allDay) return
IsSkipped(event) == event.allDay

\* one call of the events.forEach callback
EventStep(acc, event) ==
  IF IsSkipped(event) THEN acc
  ELSE [totalMeetingMinutes |-> FAdd(acc.totalMeetingMinutes, DurationMinutes(event)),
        meetingCount |-> acc.meetingCount + 1,
        categoryCounts |-> CountCategories(acc.categoryCounts, event),
        dailyMeetingMinutes |->
          AddDaily(acc.dailyMeetingMinutes, DateKey(event.start), DurationMinutes(event))]

EmptyCounts == [c \in {} |-> 0]

\* the accumulators before the loop
StartAcc ==
  [totalMeetingMinutes |-> Zero, meetingCount |-> 0,
   categoryCounts |-> EmptyCounts, dailyMeetingMinutes |-> <<>>]

\* events.forEach(...)
RECURSIVE EventLoop(_, _)
EventLoop(acc, evs) ==
  IF evs = <<>> THEN acc ELSE EventLoop(EventStep(acc, Head(evs)), Tail(evs))

\* a bucket that is not less wins: of tied buckets the last one is kept
RECURSIVE BusiestLoopMutant(_, _)
BusiestLoopMutant(best, daily) ==
  IF daily = <<>> THEN best
  ELSE BusiestLoopMutant(IF ~FLess(Head(daily).minutes, best.busiestDayMinutes)
                           THEN [busiestDay |-> Head(daily).date,
                                 busiestDayMinutes |-> Head(daily).minutes]
                           ELSE best,
                         Tail(daily))
\* Object.entries(dailyMeetingMinutes).forEach: a strictly greater bucket wins
RECURSIVE BusiestLoop(_, _)
BusiestLoop(best, daily) ==
  IF daily = <<>> THEN best
  ELSE BusiestLoop(IF FLess(best.busiestDayMinutes, Head(daily).minutes)
                     THEN [busiestDay |-> Head(daily).date,
                           busiestDayMinutes |-> Head(daily).minutes]
                     ELSE best,
                   Tail(daily))

\* Math.ceil((end.getTime() - start.getTime()) / (1000 * 60 * 60 * 24))
DayCount(start, end) == Ceil(end - start, MsPerDay)

\* Math.round((minutes / 60) * 10) / 10, in tenths
Hours(minutes) == FRound(FMul10(FDivInt(minutes, 60)))

\* Math.round(totalMeetingMinutes / dayCount); a division by zero gives NaN
\* (0 / 0) or Infinity, a negative dayCount a quotient <= 0
AverageDailyMeetingMinutes(total, dayCount) ==
  IF dayCount = 0 THEN (IF IsZero(total) THEN NaN ELSE Infinity)
  ELSE IF dayCount > 0 THEN Num(FRound(FDivInt(total, dayCount)))
  ELSE Num(-FRoundNegated(FDivInt(total, -dayCount)))

\* Math.round((averageDailyMeetingMinutes / 60) * 10) / 10, in tenths
AverageDailyMeetingHours(total, dayCount) ==
  IF dayCount = 0 THEN (IF IsZero(total) THEN NaN ELSE Infinity)
  ELSE IF dayCount > 0
    THEN Num(FRound(FMul10(FDivInt(FDivInt(total, dayCount), 60))))
  ELSE Num(-FRoundNegated(FMul10(FDivInt(FDivInt(total, -dayCount), 60))))

\* the quotient is cut off, not rounded
AverageMeetingLengthMutant(total, meetingCount) ==
  IF meetingCount > 0 THEN FFloor(FDivInt(total, meetingCount)) ELSE 0
\* meetingCount > 0 ? Math.round(totalMeetingMinutes / meetingCount) : 0
AverageMeetingLength(total, meetingCount) ==
  IF meetingCount > 0 THEN FRound(FDivInt(total, meetingCount)) ELSE 0

CalendarAnalyticsResult(evs, start, end) ==
  LET acc == EventLoop(StartAcc, evs)
      dayCount == DayCount(start, end)
      best == BusiestLoop([busiestDay |-> NoDay, busiestDayMinutes |-> Zero],
                          acc.dailyMeetingMinutes)
  IN [op |-> "getCalendarAnalytics", status |-> "ok",
      totalMeetingMinutes |-> acc.totalMeetingMinutes,
      totalMeetingHours |-> Hours(acc.totalMeetingMinutes),
      meetingCount |-> acc.meetingCount,
      averageMeetingLength |->
        AverageMeetingLength(acc.totalMeetingMinutes, acc.meetingCount),
      averageDailyMeetingMinutes |->
        AverageDailyMeetingMinutes(acc.totalMeetingMinutes, dayCount),
      averageDailyMeetingHours |->
        AverageDailyMeetingHours(acc.totalMeetingMinutes, dayCount),
      categoryCounts |-> acc.categoryCounts,
      busiestDay |-> best.busiestDay,
      busiestDayMinutes |-> best.busiestDayMinutes,
      busiestDayHours |-> Hours(best.busiestDayMinutes),
      dailyMeetingMinutes |-> acc.dailyMeetingMinutes]

\* most events the repository holds under SpecAnalytics
MaxAnalyticsEvents == 3

\* the events created under SpecAnalytics
AnalyticsEvents ==
  { \* 20 seconds, 10 seconds and 30 seconds: no whole numbers of minutes
    [start |-> At(0, 10, 0, 0), end |-> At(0, 10, 0, 20), allDay |-> FALSE,
     categories |-> <<>>],
    [start |-> At(1, 9, 0, 0), end |-> At(1, 9, 0, 10), allDay |-> FALSE,
     categories |-> <<"work">>],
    [start |-> At(0, 11, 0, 0), end |-> At(0, 11, 0, 30), allDay |-> FALSE,
     categories |-> <<"work", "personal">>],
    \* 60 minutes on day 0 and 60 minutes on day 1
    [start |-> At(0, 0, 0, 0), end |-> At(0, 1, 0, 0), allDay |-> FALSE,
     categories |-> <<"Uncategorized">>],
    \* the same category named twice
    [start |-> At(1, 9, 0, 0), end |-> At(1, 10, 0, 0), allDay |-> FALSE,
     categories |-> <<"work", "work">>],
    \* zero length, and no categories field
    [start |-> At(0, 12, 0, 0), end |-> At(0, 12, 0, 0), allDay |-> FALSE],
    \* all-day events
    [start |-> At(0, 0, 0, 0), end |-> At(1, 0, 0, 0), allDay |-> TRUE,
     categories |-> <<"work">>],
    [start |-> At(1, 0, 0, 0), end |-> At(1, 0, 0, 0), allDay |-> TRUE,
     categories |-> <<>>] }

\* the ranges asked for under SpecAnalytics
AnalyticsRanges ==
  { <<At(0, 0, 0, 0), At(2, 0, 0, 0)>>,
    <<At(0, 0, 0, 0), At(1, 12, 0, 0)>>,
    <<At(0, 0, 0, 0), At(0, 0, 0, 0)>>,
    <<At(2, 0, 0, 0), At(0, 0, 0, 0)>> }

\* getCalendarAnalytics(userId, startDate, endDate)
GetCalendarAnalytics ==
  /\ req = NoRequest /\ result = NoResult
  /\ \E range \in AnalyticsRanges :
       /\ req' = [op |-> "getCalendarAnalytics", start |-> range[1], end |-> range[2]]
       /\ events' = getEvents(repo, range[1], range[2])
       /\ result' = CalendarAnalyticsResult(getEvents(repo, range[1], range[2]),
                                            range[1], range[2])
  /\ UNCHANGED repo

NextAnalytics ==
  \/ CreateEvent(AnalyticsEvents, MaxAnalyticsEvents)
  \/ GetCalendarAnalytics
  \/ Respond

SpecAnalytics == Init /\ [][NextAnalytics]_vars

----------------------------------------------------------------------------
(* suggestRescheduling.  The call waits twice: for getEvents, and for      *)
(* findFreeTimeSlots, which calls getEvents again.  Between the two the    *)
(* repository may be written by other requests.  req holds the arguments   *)
(* and the local variables of the call, pc the await it stands at.         *)

\* addDays(now, 14)
LookaheadDays == 14

\* slice(0, 3)
MaxAlternatives == 3

\* no two instants are on the same day
isSameDayMutant(a, b) == FALSE
\* isSameDay (date-fns): the two instants are on the same local calendar day
isSameDay(a, b) == startOfDay(a) = startOfDay(b)

\* events.find((event) => event.id === eventId): the place of the first such
\* event, 0 when there is none
FindById(evs, eventId) ==
  IF \E i \in 1 .. Len(evs) : evs[i].id = eventId
    THEN CHOOSE i \in 1 .. Len(evs) :
           evs[i].id = eventId /\ \A j \in 1 .. i - 1 : evs[j].id # eventId
    ELSE 0

\* the last slots that are not on the event's day are kept
AlternativeSlotsMutant(freeSlots, eventStart) ==
  LET kept == SelectSeq(freeSlots, LAMBDA slot : ~isSameDay(slot.start, eventStart))
  IN SubSeq(kept, Max2(1, Len(kept) - MaxAlternatives + 1), Len(kept))
\* result.freeSlots.filter((slot) => !isSameDay(new Date(slot.start), eventStart)).slice(0, 3)
AlternativeSlots(freeSlots, eventStart) ==
  LET kept == SelectSeq(freeSlots, LAMBDA slot : ~isSameDay(slot.start, eventStart))
  IN SubSeq(kept, 1, Min2(MaxAlternatives, Len(kept)))

\* most events the repository holds under SpecReschedule
MaxRescheduleEvents == 2

\* the intervals of the events created under SpecReschedule
RescheduleIntervals ==
  { <<At(1, 10, 0, 0), At(1, 11, 0, 0)>>,
    <<At(1, 9, 0, 0), At(1, 17, 0, 0)>>,      \* as long as the window of a day
    <<At(2, 12, 0, 0), At(2, 12, 0, 0)>>,     \* zero length
    <<At(0, 23, 0, 0), At(1, 10, 0, 0)>>,     \* begins the evening before
    <<At(1, 10, 0, 30), At(1, 10, 45, 0)>>,   \* no whole number of minutes
    <<At(20, 10, 0, 0), At(20, 11, 0, 0)>> }  \* beyond the 14 days

RescheduleEvents ==
  { [start |-> iv[1], end |-> iv[2], allDay |-> FALSE, categories |-> <<>>] :
      iv \in RescheduleIntervals }

\* the instants new Date() gives under SpecReschedule
RescheduleNows == { At(0, 8, 0, 0), At(1, 10, 30, 0), At(1, 18, 0, 0) }

\* lines 196-210: the first fetch and the lookup
SuggestRescheduling ==
  /\ req = NoRequest /\ result = NoResult
  /\ \E now \in RescheduleNows, eventId \in 1 .. MaxRescheduleEvents :
       LET futureDate == addDays(now, LookaheadDays)
           fetched == getEvents(repo, now, futureDate)
           at == FindById(fetched, eventId)
       IN /\ events' = fetched
          /\ IF at = 0
               THEN /\ req' = [op |-> "suggestRescheduling", pc |-> "done",
                               now |-> now, eventId |-> eventId]
                    /\ result' = [op |-> "suggestRescheduling", status |-> "ok",
                                  success |-> FALSE, message |-> "Event not found"]
               ELSE /\ req' = [op |-> "suggestRescheduling",
                               pc |-> "findFreeTimeSlots",
                               now |-> now, eventId |-> eventId,
                               eventToReschedule |-> fetched[at],
                               durationMinutes |->
                                 Floor(fetched[at].end - fetched[at].start, MsPerMinute)]
                    /\ result' = NoResult
  /\ UNCHANGED repo

\* lines 212-231: findFreeTimeSlots fetches the events again and scans them;
\* what it throws leaves suggestRescheduling as it is
SuggestReschedulingScan ==
  /\ req.op = "suggestRescheduling" /\ req.pc = "findFreeTimeSlots"
  /\ \E lib \in DateFns :
       LET futureDate == addDays(req.now, LookaheadDays)
           fetched == getEvents(repo, req.now, futureDate)
           scan == FreeTimeSlotsResult(fetched, req.now, futureDate,
                                       req.durationMinutes, lib)
       IN /\ req' = [pc |-> "done", scanned |-> fetched, scan |-> scan] @@ req
          /\ result' =
               IF scan.status = "ok"
                 THEN [op |-> "suggestRescheduling", status |-> "ok",
                       success |-> TRUE,
                       event |-> [id |-> req.eventToReschedule.id,
                                  start |-> req.eventToReschedule.start,
                                  end |-> req.eventToReschedule.end,
                                  duration |-> req.durationMinutes],
                       alternativeSlots |->
                         AlternativeSlots(scan.freeSlots, req.eventToReschedule.start)]
                 ELSE [op |-> "suggestRescheduling", status |-> "rejected",
                       error |-> scan.error]
  /\ UNCHANGED <<repo, events>>

NextReschedule ==
  \/ CreateEvent(RescheduleEvents, MaxRescheduleEvents)
  \/ SuggestRescheduling
  \/ SuggestReschedulingScan
  \/ Respond

SpecReschedule == Init /\ [][NextReschedule]_vars

----------------------------------------------------------------------------
(* A repository whose fetch may fail.  getEvents returns a promise; when   *)
(* it is rejected, an await outside a try block rejects the call that      *)
(* awaits, and an await inside a try block runs the catch block.           *)

\* the call is rejected with the error
Rejected(op, error) == [op |-> op, status |-> "rejected", error |-> error]

\* now.getDate() + 30
FindEventsDays == 30

\* a character in lower case, for the letters the texts of the model use
LowerOf(c) ==
  CASE c = "S" -> "s" [] c = "Y" -> "y" [] c = "N" -> "n" [] c = "C" -> "c"
    [] OTHER -> c

\* String.prototype.toLowerCase; a text is a sequence of characters
toLowerCase(text) == [i \in DOMAIN text |-> LowerOf(text[i])]

\* String.prototype.includes
includes(text, part) ==
  \E i \in 0 .. Len(text) - Len(part) : SubSeq(text, i + 1, i + Len(part)) = part

\* event.field?.toLowerCase().includes(lowerQuery): undefined, which counts
\* as false, when the event has no such field
FieldIncludes(event, field, lowerQuery) ==
  field \in DOMAIN event /\ includes(toLowerCase(event[field]), lowerQuery)

\* the filter callback of findEvents
MatchesQuery(event, lowerQuery) ==
  \/ FieldIncludes(event, "title", lowerQuery)
  \/ FieldIncludes(event, "description", lowerQuery)
  \/ FieldIncludes(event, "location", lowerQuery)

\* findAvailableTimeSlots(userId, startDate, durationMinutes) of
\* ./calendar-utils: the free slots of the working hours from startDate to
\* the end of its day; a failed fetch rejects it
findAvailableTimeSlots(stored, startDate, durationMinutes) ==
  DayLoop(SortByStart(getEvents(stored, startDate, endOfDay(startDate))),
          startOfDay(startDate), startDate, endOfDay(startDate), durationMinutes)

\* getEvents(userId, start, addDays(start, days)), with the test against
\* the end of the range made in whole days: e.start - start <= days * MsPerDay
\* exactly when the difference, rounded up to days, is <= days
getEventsOfDays(stored, start, days) ==
  SelectSeq(stored, LAMBDA e : Ceil(e.start - start, MsPerDay) <= days /\ e.end >= start)

\* most events the repository holds under SpecFetch
MaxFetchEvents == 2

\* the events created under SpecFetch
FetchEvents ==
  { [start |-> At(0, 10, 0, 0), end |-> At(0, 11, 0, 0), allDay |-> FALSE,
     categories |-> <<"work">>, title |-> <<"S", "y", "n", "c">>],
    [start |-> At(1, 9, 0, 0), end |-> At(1, 9, 30, 0), allDay |-> FALSE,
     categories |-> <<>>, title |-> <<"c", "a", "l", "l">>,
     description |-> <<"S", "Y">>, location |-> <<"n", "y", "c">>],
    [start |-> At(0, 12, 0, 0), end |-> At(0, 13, 0, 0), allDay |-> FALSE] }

\* the texts asked for under SpecFetch
FetchQueries == { <<"s", "Y">>, <<"N", "Y">>, <<"x">>, <<>> }

\* the outcomes of a call of getEvents
FetchOutcomes == {"ok", "fails"}

\* findEvents(userId, query)
FindEvents ==
  /\ req = NoRequest /\ result = NoResult
  /\ \E now \in RescheduleNows, query \in FetchQueries, fetch \in FetchOutcomes :
       LET fetched == getEventsOfDays(repo, now, FindEventsDays)
       IN /\ req' = [op |-> "findEvents", query |-> query, now |-> now,
                     fetch |-> fetch]
          /\ events' = IF fetch = "ok" THEN fetched ELSE <<>>
          /\ result' =
               IF fetch = "ok"
                 THEN [op |-> "findEvents", status |-> "ok",
                       found |-> SelectSeq(fetched,
                                   LAMBDA event : MatchesQuery(event, toLowerCase(query)))]
                 ELSE [op |-> "findEvents", status |-> "ok", found |-> <<>>]
  /\ UNCHANGED repo

\* findOptimalMeetingTime(userId, participantIds, durationMinutes, startDate, endDate)
FindOptimalMeetingTime ==
  /\ req = NoRequest /\ result = NoResult
  /\ \E startDate \in FreeRangePoints, durationMinutes \in FreeMinDurations,
        fetch \in FetchOutcomes :
       /\ req' = [op |-> "findOptimalMeetingTime", startDate |-> startDate,
                  durationMinutes |-> durationMinutes, fetch |-> fetch]
       /\ events' = IF fetch = "ok"
                      THEN getEvents(repo, startDate, endOfDay(startDate))
                      ELSE <<>>
       /\ result' =
            IF fetch = "ok"
              THEN [op |-> "findOptimalMeetingTime", status |-> "ok",
                    found |-> findAvailableTimeSlots(repo, startDate, durationMinutes)]
              ELSE [op |-> "findOptimalMeetingTime", status |-> "ok", found |-> <<>>]
  /\ UNCHANGED repo

\* getCalendarAnalytics when the getEvents of line 70 fails
GetCalendarAnalyticsFetchFails ==
  /\ req = NoRequest /\ result = NoResult
  /\ \E range \in AnalyticsRanges :
       req' = [op |-> "getCalendarAnalytics", start |-> range[1], end |-> range[2],
               fetch |-> "fails"]
  /\ result' = Rejected("getCalendarAnalytics", "RepositoryFailure")
  /\ UNCHANGED <<repo, events>>

\* findFreeTimeSlots when the getEvents of line 131 fails
FindFreeTimeSlotsFetchFails ==
  /\ req = NoRequest /\ result = NoResult
  /\ \E start \in FreeRangePoints, end \in FreeRangePoints,
        minDurationMinutes \in FreeMinDurations :
       req' = [op |-> "findFreeTimeSlots", start |-> start, end |-> end,
               minDurationMinutes |-> minDurationMinutes, fetch |-> "fails"]
  /\ result' = Rejected("findFreeTimeSlots", "RepositoryFailure")
  /\ UNCHANGED <<repo, events>>

\* suggestRescheduling when the getEvents of line 198 fails
SuggestReschedulingFetchFails ==
  /\ req = NoRequest /\ result = NoResult
  /\ \E now \in RescheduleNows, eventId \in 1 .. MaxRescheduleEvents :
       req' = [op |-> "suggestRescheduling", pc |-> "done", now |-> now,
               eventId |-> eventId, fetch |-> "fails"]
  /\ result' = Rejected("suggestRescheduling", "RepositoryFailure")
  /\ UNCHANGED <<repo, events>>

\* suggestRescheduling when the getEvents inside the findFreeTimeSlots it
\* awaits at line 212 fails
SuggestReschedulingScanFetchFails ==
  /\ req.op = "suggestRescheduling" /\ req.pc = "findFreeTimeSlots"
  /\ req' = [pc |-> "done", fetch |-> "fails"] @@ req
  /\ result' = Rejected("suggestRescheduling", "RepositoryFailure")
  /\ UNCHANGED <<repo, events>>

NextFetch ==
  \/ CreateEvent(FetchEvents, MaxFetchEvents)
  \/ FindEvents
  \/ FindOptimalMeetingTime
  \/ GetCalendarAnalytics
  \/ GetCalendarAnalyticsFetchFails
  \/ FindFreeTimeSlots
  \/ FindFreeTimeSlotsFetchFails
  \/ SuggestRescheduling
  \/ SuggestReschedulingFetchFails
  \/ SuggestReschedulingScan
  \/ SuggestReschedulingScanFetchFails
  \/ Respond

SpecFetch == Init /\ [][NextFetch]_vars

----------------------------------------------------------------------------
(* Properties of findFreeTimeSlots (SpecFree) *)

FreeReturned == result.op = "findFreeTimeSlots" /\ result.status = "ok"

\* the freeSlots of the result returned, none when no result is a slot list
ReturnedSlots == IF FreeReturned THEN result.freeSlots ELSE <<>>

\* half-open overlap of a slot and an event
Overlaps(a, b) == a.start < b.end /\ b.start < a.end

\* the returned slots that start on day d
SlotsOnDay(d) ==
  SelectSeq(ReturnedSlots, LAMBDA s : startOfDay(s.start) = d * MsPerDay)

\* the days of the request's range
ReqDays == 0 .. Floor(endOfDay(Max2(req.start, req.end)), MsPerDay)

WindowStart(d) == Max2(At(d, WorkStartHour, 0, 0), req.start)
WindowEnd(d) == Min2(At(d, WorkEndHour, 0, 0), req.end)

\* C1: no free slot returned by findFreeTimeSlots overlaps (half-open) an
\* event of the fetched set.
C1_NoSlotOverlapsEvent ==
  FreeReturned =>
    \A i \in 1 .. Len(ReturnedSlots), j \in 1 .. Len(events) :
      ~Overlaps(ReturnedSlots[i], events[j])

\* C2: the returned freeSlots are sorted ascending by start and consecutive
\* slots do not overlap (s.end <= t.start), within a day and across days.
C2_SlotsSortedDisjoint ==
  FreeReturned =>
    \A i \in 1 .. Len(ReturnedSlots) - 1 :
      /\ ReturnedSlots[i].start <= ReturnedSlots[i + 1].start
      /\ ReturnedSlots[i].end <= ReturnedSlots[i + 1].start

\* a result with two slots on one day followed by a slot on the next day,
\* computed from a repository that holds events
C2_Witness ==
  /\ FreeReturned
  /\ events # <<>>
  /\ \E i \in 1 .. Len(ReturnedSlots) - 2 :
       /\ startOfDay(ReturnedSlots[i].start) = startOfDay(ReturnedSlots[i + 1].start)
       /\ startOfDay(ReturnedSlots[i + 1].start) < startOfDay(ReturnedSlots[i + 2].start)

\* C3: every returned slot is at least minDurationMinutes long and its
\* duration field, in whole minutes, is at least minDurationMinutes.
C3_SlotsMeetMinimum ==
  FreeReturned =>
    \A i \in 1 .. Len(ReturnedSlots) :
      /\ ReturnedSlots[i].end - ReturnedSlots[i].start
            >= req.minDurationMinutes * MsPerMinute
      /\ ReturnedSlots[i].duration >= req.minDurationMinutes

\* a slot whose length is no whole number of minutes is returned for a
\* positive minimum, and a gap shorter than the minimum was left out
C3_Witness ==
  /\ FreeReturned
  /\ req.minDurationMinutes > 0
  /\ \E i \in 1 .. Len(ReturnedSlots) :
       (ReturnedSlots[i].end - ReturnedSlots[i].start) % MsPerMinute # 0
  /\ \E j \in 1 .. Len(events) :
       /\ events[j].end < WindowEnd(0)
       /\ WindowEnd(0) - events[j].end < req.minDurationMinutes * MsPerMinute
       /\ WindowEnd(0) - events[j].end
            > (req.minDurationMinutes - 1) * MsPerMinute

\* C4: every returned slot lies inside the range and inside the 09:00-17:00
\* window of one day: start >= max(dayStart, range.start) and
\* end <= min(dayEnd, range.end).
C4_SlotsInsideWindow ==
  FreeReturned =>
    \A i \in 1 .. Len(ReturnedSlots) :
      \E d \in ReqDays :
        /\ ReturnedSlots[i].start >= WindowStart(d)
        /\ ReturnedSlots[i].end <= WindowEnd(d)

\* slots are returned for a range that cuts a window, with an event that
\* begins before a window and ends after the window of the day before
C4_Witness ==
  /\ FreeReturned
  /\ \E i \in 1 .. Len(ReturnedSlots) :
       ReturnedSlots[i].end = req.end /\ req.end < At(1, WorkEndHour, 0, 0)
  /\ \E i \in 1 .. Len(ReturnedSlots) :
       ReturnedSlots[i].start = req.start /\ req.start > At(0, WorkStartHour, 0, 0)
  /\ \E j \in 1 .. Len(events) :
       /\ events[j].end > At(0, WorkEndHour, 0, 0)
       /\ events[j].start < At(0, WorkEndHour, 0, 0)
       /\ events[j].end > At(1, WorkStartHour, 0, 0)

\* an event of the fetched set spans the clipped window of day d
SpansWindow(e, d) == e.start <= WindowStart(d) /\ e.end >= WindowEnd(d)

\* C5: when an event spans the whole clipped working window of a day, no
\* free slot is returned for that day, whatever minDurationMinutes is.
C5_CoveredDayHasNoSlot ==
  FreeReturned =>
    \A d \in ReqDays :
      (/\ WindowStart(d) <= WindowEnd(d)
       /\ \E j \in 1 .. Len(events) : SpansWindow(events[j], d))
        => SlotsOnDay(d) = <<>>

\* C6: a day on which no event overlaps the clipped working window gets
\* exactly one slot, the clipped window, when the window is at least
\* minDurationMinutes long, and no slot otherwise.
C6_FreeDayHasOneSlot ==
  FreeReturned =>
    \A d \in ReqDays :
      (\A j \in 1 .. Len(events) :
         ~Overlaps([start |-> WindowStart(d), end |-> WindowEnd(d)], events[j]))
        => SlotsOnDay(d) =
             IF WindowEnd(d) - WindowStart(d) >= req.minDurationMinutes * MsPerMinute
               THEN <<[start |-> WindowStart(d), end |-> WindowEnd(d),
                       duration |-> Floor(WindowEnd(d) - WindowStart(d), MsPerMinute)]>>
               ELSE <<>>

\* day 0 is booked and day 1 is free: day 1 gets its one slot, cut by the range
C6_Witness ==
  /\ FreeReturned
  /\ \E j \in 1 .. Len(events) :
       Overlaps([start |-> WindowStart(0), end |-> WindowEnd(0)], events[j])
  /\ \A j \in 1 .. Len(events) :
       ~Overlaps([start |-> WindowStart(1), end |-> WindowEnd(1)], events[j])
  /\ req.minDurationMinutes > 0
  /\ Len(SlotsOnDay(1)) = 1
  /\ SlotsOnDay(1)[1].end = req.end

\* a free day whose clipped window is shorter than the minimum gets no slot
C6_WitnessTooShort ==
  /\ FreeReturned
  /\ events = <<>>
  /\ WindowStart(0) <= WindowEnd(0)
  /\ WindowEnd(0) - WindowStart(0) < req.minDurationMinutes * MsPerMinute
  /\ SlotsOnDay(0) = <<>>

\* C7: a call with range start > end is rejected with InvalidInterval; it
\* never returns a result.
C7_InvertedRangeRejected ==
  (result.op = "findFreeTimeSlots" /\ req.start > req.end) =>
    (result.status = "rejected" /\ result.error = "InvalidInterval")

----------------------------------------------------------------------------
(* Properties of getCalendarAnalytics (SpecAnalytics) *)

AnalyticsReturned == result.op = "getCalendarAnalytics" /\ result.status = "ok"

\* the values of dailyMeetingMinutes added up in the order of the entries,
\* as Object.values(dailyMeetingMinutes).reduce((a, b) => a + b, 0) does
RECURSIVE SumMinutes(_, _)
SumMinutes(sum, daily) ==
  IF daily = <<>> THEN sum ELSE SumMinutes(FAdd(sum, Head(daily).minutes), Tail(daily))

\* the fetched events that are not all-day events
Meetings == {i \in 1 .. Len(events) : ~events[i].allDay}

\* the event lasts a whole number of minutes
WholeMinutes(event) == (event.end - event.start) % MsPerMinute = 0

\* C8: with no all-day event in the fetched set, the values of
\* dailyMeetingMinutes add up to totalMeetingMinutes.
C8_DailySumIsTotal ==
  (AnalyticsReturned /\ Meetings = 1 .. Len(events)) =>
    SumMinutes(Zero, result.dailyMeetingMinutes) = result.totalMeetingMinutes

\* C8 as amended: with no all-day event in the fetched set and every fetched
\* event a whole number of minutes long, the values of dailyMeetingMinutes
\* add up to totalMeetingMinutes.
C8_DailySumIsTotalWholeMinutes ==
  (/\ AnalyticsReturned
   /\ Meetings = 1 .. Len(events)
   /\ \A i \in 1 .. Len(events) : WholeMinutes(events[i])) =>
    SumMinutes(Zero, result.dailyMeetingMinutes) = result.totalMeetingMinutes

\* three meetings of whole minutes, two of them in one bucket and one in
\* another
C8_Witness ==
  /\ AnalyticsReturned
  /\ Meetings = 1 .. Len(events)
  /\ \A i \in 1 .. Len(events) : WholeMinutes(events[i]) /\ events[i].end > events[i].start
  /\ result.meetingCount = 3
  /\ Len(result.dailyMeetingMinutes) = 2
  /\ DateKey(events[1].start) = DateKey(events[3].start)

\* the sequence without its i-th element
RemoveAt(s, i) == SubSeq(s, 1, i - 1) \o SubSeq(s, i + 1, Len(s))

\* the aggregates of a report that C9 names
Aggregates(r) ==
  <<r.totalMeetingMinutes, r.meetingCount, r.categoryCounts, r.dailyMeetingMinutes,
    r.busiestDay, r.busiestDayMinutes>>

\* C9: an all-day event added to an event set changes none of
\* totalMeetingMinutes, meetingCount, categoryCounts, dailyMeetingMinutes and
\* the busiest day: the report of a fetched set equals, in these, the report
\* of the set without any one of its all-day events.
C9_AllDayAddsNothing ==
  AnalyticsReturned =>
    \A i \in 1 .. Len(events) :
      events[i].allDay =>
        Aggregates(CalendarAnalyticsResult(RemoveAt(events, i), req.start, req.end))
          = Aggregates(result)

\* a report over a meeting and an all-day event that has a duration and
\* categories, the all-day event fetched first
C9_Witness ==
  /\ AnalyticsReturned
  /\ Len(events) = 2
  /\ events[1].allDay /\ events[1].end > events[1].start /\ HasCategories(events[1])
  /\ ~events[2].allDay /\ events[2].end > events[2].start
  /\ result.meetingCount = 1
  /\ result.busiestDay # NoDay

\* categoryCounts[c], 0 when the report has no such key
CountOf(c) == IF c \in DOMAIN result.categoryCounts THEN result.categoryCounts[c] ELSE 0

\* the category list of an event, empty when the event has none
CategoriesOf(event) ==
  IF "categories" \in DOMAIN event THEN event.categories ELSE <<>>

\* the labels the fetched meetings carry
Labels ==
  UNION {{CategoriesOf(events[i])[j] : j \in DOMAIN CategoriesOf(events[i])} :
           i \in Meetings}

\* the number of meetings that carry the label c
Carrying(c) ==
  Cardinality({i \in Meetings :
                 \E j \in DOMAIN CategoriesOf(events[i]) : CategoriesOf(events[i])[j] = c})

\* the number of meetings with an empty or absent category list
Unlabelled == Cardinality({i \in Meetings : CategoriesOf(events[i]) = <<>>})

\* the number of times the label c stands in the category lists of the
\* first n fetched events that are meetings
RECURSIVE Occurrences(_, _)
Occurrences(c, n) ==
  IF n = 0 THEN 0
  ELSE Occurrences(c, n - 1)
       + IF n \in Meetings
           THEN Cardinality({j \in DOMAIN CategoriesOf(events[n]) :
                               CategoriesOf(events[n])[j] = c})
           ELSE 0

Quotient == FDivInt(result.totalMeetingMinutes, result.meetingCount)

\* the double is a whole number
IsWhole(x) == IsZero(x) \/ (x.e > -53 /\ ~SigBelow(x, -x.e))

\* the whole number n as a double
Whole(n) == ToDouble(n, 1)

\* n + 1/2 as a double, for a whole number n >= 0
HalfAbove(n) == ToDouble(2 * n + 1, 2)

\* C11: averageMeetingLength is the quotient totalMeetingMinutes /
\* meetingCount itself when there are meetings, and 0 when there are none.
C11_AverageIsExactQuotient ==
  AnalyticsReturned =>
    IF result.meetingCount > 0
      THEN Whole(result.averageMeetingLength) = Quotient
      ELSE result.averageMeetingLength = 0

\* C11 as amended: averageMeetingLength is the whole number nearest to the
\* quotient, a quotient half-way between two whole numbers going up, when
\* there are meetings, and 0 when there are none.
C11_AverageIsRoundedQuotient ==
  AnalyticsReturned =>
    IF result.meetingCount > 0
      THEN /\ result.averageMeetingLength >= 0
           /\ FLess(Quotient, HalfAbove(result.averageMeetingLength))
           /\ result.averageMeetingLength > 0 =>
                ~FLess(Quotient, HalfAbove(result.averageMeetingLength - 1))
      ELSE result.averageMeetingLength = 0

\* a report whose quotient is no whole number and is rounded up
C11_Witness ==
  /\ AnalyticsReturned
  /\ result.meetingCount > 1
  /\ ~IsWhole(Quotient)
  /\ FLess(Quotient, Whole(result.averageMeetingLength))

\* a report over no meeting
C11_WitnessNoMeeting ==
  /\ AnalyticsReturned
  /\ Len(events) > 0
  /\ result.meetingCount = 0
  /\ result.averageMeetingLength = 0

\* C12: a call whose range gives dayCount <= 0 (end <= start) is rejected;
\* no report is returned for it.
C12_DegenerateRangeRejected ==
  (req.op = "getCalendarAnalytics" /\ req.end <= req.start) =>
    result.status = "rejected"

\* the buckets of the report
Buckets == 1 .. Len(result.dailyMeetingMinutes)

Minutes(i) == result.dailyMeetingMinutes[i].minutes

\* the place in the fetched list of the first meeting that starts on a day
FirstMeetingOn(date) ==
  CHOOSE i \in Meetings :
    /\ DateKey(events[i].start) = date
    /\ \A j \in Meetings : DateKey(events[j].start) = date => i <= j

\* bucket i holds the maximum, and of the buckets that hold the maximum it
\* is the one whose first meeting was fetched first
EarliestMaximum(i) ==
  /\ \A j \in Buckets : ~FLess(Minutes(i), Minutes(j))
  /\ \A j \in Buckets \ {i} :
       Minutes(j) = Minutes(i) =>
         FirstMeetingOn(result.dailyMeetingMinutes[i].date)
           < FirstMeetingOn(result.dailyMeetingMinutes[j].date)

\* the report names bucket i as the busiest day
Names(i) ==
  /\ result.busiestDay = result.dailyMeetingMinutes[i].date
  /\ result.busiestDayMinutes = Minutes(i)

\* C17: with at least one meeting, the busiest day is the bucket with the
\* most minutes, the first inserted of those tied for the most, and
\* busiestDayMinutes is its value.
C17_BusiestIsEarliestMaximum ==
  (AnalyticsReturned /\ Meetings # {}) =>
    \E i \in Buckets : EarliestMaximum(i) /\ Names(i)

\* C17 as amended: the same when some bucket is greater than 0; when none
\* is, busiestDay is empty and busiestDayMinutes is 0.
C17_BusiestIsEarliestPositiveMaximum ==
  AnalyticsReturned =>
    IF \E i \in Buckets : FLess(Zero, Minutes(i))
      THEN \E i \in Buckets : EarliestMaximum(i) /\ Names(i)
      ELSE result.busiestDay = NoDay /\ result.busiestDayMinutes = Zero

\* two days tied for the most minutes, the later day fetched first and named
C17_Witness ==
  /\ AnalyticsReturned
  /\ Len(result.dailyMeetingMinutes) = 2
  /\ Minutes(1) = Minutes(2)
  /\ FLess(Zero, Minutes(1))
  /\ result.dailyMeetingMinutes[1].date > result.dailyMeetingMinutes[2].date
  /\ result.busiestDay = result.dailyMeetingMinutes[1].date

\* a report over meetings of no length only
C17_WitnessNoMinutes ==
  /\ AnalyticsReturned
  /\ Meetings # {}
  /\ result.busiestDay = NoDay

----------------------------------------------------------------------------
(* Properties of suggestRescheduling (SpecReschedule) *)

\* the call has returned its alternatives
RescheduleReturned ==
  result.op = "suggestRescheduling" /\ result.status = "ok" /\ result.success

Alternatives == result.alternativeSlots

\* the slots of the scan that do not start on the day the event starts on
Candidates ==
  {j \in 1 .. Len(req.scan.freeSlots) :
     DateKey(req.scan.freeSlots[j].start) # DateKey(req.eventToReschedule.start)}

\* C13: no alternative starts on the calendar day the event starts on.
C13_NoAlternativeOnEventDay ==
  RescheduleReturned =>
    \A i \in 1 .. Len(Alternatives) :
      DateKey(Alternatives[i].start) # DateKey(result.event.start)

\* the scan found a slot on the event's day, which begins after the scan's
\* first day, and alternatives on other days
C13_Witness ==
  /\ RescheduleReturned
  /\ \E j \in 1 .. Len(req.scan.freeSlots) : j \notin Candidates
  /\ DateKey(result.event.start) > DateKey(req.now)
  /\ Len(Alternatives) > 0

\* C14: there are at most 3 alternatives, in ascending order, and they are
\* the earliest slots of the scan that are not on the event's day: 3 of
\* them, or all when there are fewer.
C14_ThreeEarliestAlternatives ==
  RescheduleReturned =>
    /\ Len(Alternatives) <= 3
    /\ Len(Alternatives) = Min2(3, Cardinality(Candidates))
    /\ \A i \in 1 .. Len(Alternatives) - 1 :
         Alternatives[i].start <= Alternatives[i + 1].start
    /\ \E chosen \in SUBSET Candidates :
         /\ Cardinality(chosen) = Len(Alternatives)
         /\ \A i \in 1 .. Len(Alternatives) :
              \E j \in chosen : req.scan.freeSlots[j] = Alternatives[i]
         /\ \A j \in chosen, k \in Candidates \ chosen :
              /\ req.scan.freeSlots[j].start <= req.scan.freeSlots[k].start
              /\ j < k

\* more than 3 slots to choose from, the first of them on the event's day,
\* and two alternatives on one day
C14_Witness ==
  /\ RescheduleReturned
  /\ Cardinality(Candidates) > 3
  /\ 1 \notin Candidates
  /\ Len(Alternatives) = 3
  /\ DateKey(Alternatives[1].start) = DateKey(Alternatives[2].start)

\* C16: the alternatives are computed from the events that were fetched for
\* the lookup; the events are not fetched a second time.
C16_SingleSnapshot ==
  RescheduleReturned => req.scanned = events

----------------------------------------------------------------------------
(* Properties of the entry points when a fetch fails (SpecFetch) *)

\* a getEvents of the call has failed and the call has come to its end
FetchFailed == "fetch" \in DOMAIN req /\ req.fetch = "fails" /\ result # NoResult

\* C15: when the fetch of an entry point fails, the call fails: it returns
\* no result, in particular no empty list.
C15_FetchFailureFails ==
  FetchFailed => result.status = "rejected"

====
